---- MODULE Spec2Model ----
(***************************************************************************)
(* rwc: a streaming text-statistics counter (bytes, chars, lines, words,   *)
(* longest line) with an allocation-free report formatter.                 *)
(*                                                                         *)
(* Text is a sequence of runs [ch, n]: n >= 1 copies of the character ch,  *)
(* so that lines longer than 65535 bytes and streams larger than 2^32      *)
(* bytes are ordinary values.  A u32 is a pair of 16-bit limbs [hi, lo]    *)
(* (value hi * 65536 + lo), so that it keeps its width.                    *)
(***************************************************************************)
EXTENDS Integers, Sequences, FiniteSets, TLC

VARIABLES
    options,          \* main: the parsed Options (files and the seven flags)
    overflow_checks,  \* the build: TRUE when integer overflow panics (debug)
    pc,               \* main: position of the driver
    idx,              \* main: index into options.files of the current source
    stdin_rest,       \* the unread part of standard input
    reader,           \* read_file: the unread part of the current reader
    buffer,           \* main: the scratch String shared by all read_file calls
    statistics,       \* read_file: the running Statistics / main: its result
    total,            \* main: the running total
    output,           \* standard output: the lines written so far
    seen,             \* history: what each read_line of this read_file returned
    snaps,            \* history: the snapshots read_file returned so far
    fs,               \* FixedString under test: [data, len, panicked]
    fs_log,           \* history: the fragments appended successfully, in order
    fs_last,          \* history: [before, frag] of the last append attempted
    fmt_in,           \* formatter under test: [opts, stats]
    fmt_out,          \* formatter under test: the builders print / print_header left
    add_in,           \* combination under test: <<a, b, c>>
    add_out           \* combination under test: the results

vars == << options, overflow_checks, pc, idx, stdin_rest, reader, buffer,
           statistics, total, output, seen, snaps,
           fs, fs_log, fs_last, fmt_in, fmt_out, add_in, add_out >>

mainVars == << options, pc, idx, stdin_rest, reader, buffer,
               statistics, total, output, seen, snaps >>
fsVars == << fs, fs_log, fs_last >>
fmtVars == << fmt_in, fmt_out >>
addVars == << add_in, add_out >>

----------------------------------------------------------------------------
(* Bounds of the model *)

\* the longest file list tried
MaxFiles == 2
\* the largest FixedString capacity tried in the builder's own specification
MaxCap == 10
\* the most appends tried on one builder
MaxAppends == 3

----------------------------------------------------------------------------
(* Fixed-width integers *)

\* 2^16: the range of a u16 and of one limb of a u32
W16 == 65536

Max(a, b) == IF a >= b THEN a ELSE b

\* a natural number n < 2^31 as limbs, without loss
Wide(n) == [hi |-> n \div W16, lo |-> n % W16]

\* limbs as a mathematical number (hi is not bounded): sum without wrap
WAdd(x, y) ==
    LET lo == x.lo + y.lo
    IN  [hi |-> x.hi + y.hi + (lo \div W16), lo |-> lo % W16]

WLe(x, y) == x.hi < y.hi \/ (x.hi = y.hi /\ x.lo <= y.lo)

Fits32(x) == x.hi < W16

\* `n as u32`
AsU32(n) == [hi |-> (n \div W16) % W16, lo |-> n % W16]

\* `n as u16`
AsU16(n) == n % W16

\* u32 + u32 as the hardware computes it, and whether it overflowed
U32Add(x, y) ==
    LET w == WAdd(x, y)
    IN  [val |-> [hi |-> w.hi % W16, lo |-> w.lo], overflow |-> ~Fits32(w)]

U32Zero == [hi |-> 0, lo |-> 0]
U32One == [hi |-> 0, lo |-> 1]
U32Max == [hi |-> W16 - 1, lo |-> W16 - 1]

----------------------------------------------------------------------------
(* Text *)

Run(c, n) == [ch |-> c, n |-> n]

\* the two-byte character of the spec's example, U+00E9
EAcute == "U+00E9"
\* where the underlying read fails
EIO == "EIO"

\* UTF-8 length of a character
Utf8Len(c) == IF c = EAcute THEN 2 ELSE 1

\* char::is_whitespace, on the characters used
IsWhitespace(c) == c \in {" ", "\n", "\t"}

RECURSIVE ByteLen(_)
\* String::len
ByteLen(s) ==
    IF s = << >> THEN 0
    ELSE Head(s).n * Utf8Len(Head(s).ch) + ByteLen(Tail(s))

RECURSIVE CharCount(_)
\* str::chars().count()
CharCount(s) == IF s = << >> THEN 0 ELSE Head(s).n + CharCount(Tail(s))

\* str::split_whitespace().count(): the maximal runs of non-whitespace
WordCount(s) ==
    Cardinality({ i \in 1..Len(s) :
        /\ ~IsWhitespace(s[i].ch)
        /\ (i = 1 \/ IsWhitespace(s[i-1].ch)) })

RECURSIVE read_line(_)
\* BufRead::read_line on the unread text r: [status, line, rest].  The line
\* is everything up to and including the first newline; "err" when the
\* underlying read fails before one is found.
read_line(r) ==
    IF r = << >> THEN [status |-> "ok", line |-> << >>, rest |-> << >>]
    ELSE IF Head(r).ch = EIO THEN [status |-> "err", line |-> << >>, rest |-> r]
    ELSE IF Head(r).ch = "\n" THEN
        [status |-> "ok", line |-> << Run("\n", 1) >>,
         rest |-> IF Head(r).n = 1 THEN Tail(r)
                  ELSE << Run("\n", Head(r).n - 1) >> \o Tail(r)]
    ELSE LET t == read_line(Tail(r))
         IN  [status |-> t.status, line |-> << Head(r) >> \o t.line, rest |-> t.rest]

----------------------------------------------------------------------------
(* FixedString<N>: main.rs 29-75 *)

\* the byte the array is filled with before anything is written
Nul == "NUL"

\* FixedString::<N>::new
FixedString_new(N) == [data |-> [i \in 1..N |-> Nul], len |-> 0, panicked |-> FALSE]

\* the capacity N of a builder
Capacity(f) == Len(f.data)

\* FixedString::as_bytes
as_bytes(f) == SubSeq(f.data, 1, f.len)

\* FixedString::as_str_unchecked: the same bytes, read as text
as_str_unchecked(f) == SubSeq(f.data, 1, f.len)

\* a builder that stores what fits and drops the rest
push_str_truncating(f, s) ==
    LET k == IF f.len + Len(s) > Len(f.data) THEN Len(f.data) - f.len ELSE Len(s)
    IN  [f EXCEPT
            !.data = [i \in 1..Len(f.data) |->
                        IF i > f.len /\ i <= f.len + k
                        THEN s[i - f.len] ELSE f.data[i]],
            !.len = f.len + k]

\* FixedString::push_str_unchecked: the slice data[len..len + s.len()]
\* panics when it ends past N, before anything is copied; nothing runs
\* after a panic.
push_str_unchecked(f, s) ==
    IF f.panicked THEN f
    ELSE IF f.len + Len(s) > Capacity(f) THEN [f EXCEPT !.panicked = TRUE]
    ELSE [f EXCEPT
            !.data = [i \in 1..Capacity(f) |->
                        IF i > f.len /\ i <= f.len + Len(s)
                        THEN s[i - f.len] ELSE f.data[i]],
            !.len = f.len + Len(s)]

\* FixedString::write_lit
write_lit(f, lit) == push_str_unchecked(f, lit)

DigitChar(d) == << "0", "1", "2", "3", "4", "5", "6", "7", "8", "9" >>[d + 1]

\* a u32 divided by ten: [q, r]
DivMod10(x) ==
    LET t == (x.hi % 10) * W16 + x.lo
    IN  [q |-> [hi |-> x.hi \div 10, lo |-> t \div 10], r |-> t % 10]

RECURSIVE Decimal(_)
\* Display of an unsigned integer: its decimal digits
Decimal(x) ==
    IF x.hi = 0 /\ x.lo < 10 THEN << DigitChar(x.lo) >>
    ELSE Decimal(DivMod10(x).q) \o << DigitChar(DivMod10(x).r) >>

Spaces(n) == [i \in 1..n |-> " "]

\* format_args!("{:w} ", value) with a literal tail: Arguments
Arguments(w, v, tl) == [width |-> w, value |-> v, tail |-> tl]

\* std::fmt::format: the number right-justified in at least `width`
\* characters (never cut), then the literal tail
format(args) ==
    LET d == Decimal(args.value)
    IN  Spaces(Max(args.width - Len(d), 0)) \o d \o args.tail

\* FixedString::write_fmt
write_fmt(f, args) == push_str_unchecked(f, format(args))

----------------------------------------------------------------------------
(* Statistics: main.rs 77-143 *)

\* Statistics::new
Statistics_new ==
    [bytes |-> U32Zero, chars |-> U32Zero, lines |-> U32Zero,
     words |-> U32Zero, max_line_length |-> 0]

\* the capacity of the builder of Statistics::print
PrintCapacity == 64
\* a header builder sized without the newline
HeaderCapacityTight == 54 - 1

\* the capacity of the builder of print_header
HeaderCapacity == 54
\* the field width of "{:8} "
ColumnWidth == 8

\* write_fixed!(&mut s, "{:8} ", v)
WriteColumn(s, on, v) ==
    IF on THEN write_fmt(s, Arguments(ColumnWidth, v, << " " >>)) ELSE s

\* Statistics::print: [s, out]: the builder it filled and what println!
\* wrote ("{s} {filename}" and a newline; the name is one element)
print(self, opts, filename) ==
    LET s0 == FixedString_new(PrintCapacity)
        s1 == WriteColumn(s0, opts.bytes, self.bytes)
        s2 == WriteColumn(s1, opts.chars, self.chars)
        s3 == WriteColumn(s2, opts.lines, self.lines)
        s4 == WriteColumn(s3, opts.words, self.words)
        s5 == WriteColumn(s4, opts.max_line_length, Wide(self.max_line_length))
    IN  [s |-> s5,
         out |-> IF s5.panicked THEN << >>
                 ELSE as_str_unchecked(s5) \o << " ", filename, "\n" >>]

TitleBytes == << " ", " ", " ", "b", "y", "t", "e", "s" >>
TitleChars == << " ", " ", " ", " ", "c", "h", "a", "r", "s" >>
TitleLines == << " ", " ", " ", " ", "l", "i", "n", "e", "s" >>
TitleWords == << " ", " ", " ", " ", "w", "o", "r", "d", "s" >>
TitleMax == << " ", " ", " ", " ", " ", " ", "m", "a", "x" >>
TitleFilename == << " ", "f", "i", "l", "e", "n", "a", "m", "e" >>

\* write_fixed!(&mut s, "literal")
WriteTitle(s, on, lit) == IF on THEN write_lit(s, lit) ELSE s

\* print_header: [s, out]: the builder it filled and what write_all wrote
print_header(opts) ==
    LET s0 == FixedString_new(HeaderCapacity)
        s1 == WriteTitle(s0, opts.bytes, TitleBytes)
        s2 == WriteTitle(s1, opts.chars, TitleChars)
        s3 == WriteTitle(s2, opts.lines, TitleLines)
        s4 == WriteTitle(s3, opts.words, TitleWords)
        s5 == WriteTitle(s4, opts.max_line_length, TitleMax)
        s6 == WriteTitle(s5, opts.filename, TitleFilename)
        s7 == write_lit(s6, << "\n" >>)
    IN  [s |-> s7, out |-> IF s7.panicked THEN << >> ELSE as_bytes(s7)]

\* what `self.f + other.f` leaves: the wrapped sum in a release build, a
\* panic when the build checks overflow
AddField(x, y, checked) ==
    LET r == U32Add(x, y)
    IN  [val |-> r.val, panicked |-> checked /\ r.overflow]

\* a combination that keeps its left operand's longest line
add_keeps_own_max(self, other, checked) ==
    LET b == AddField(self.bytes, other.bytes, checked)
        c == AddField(self.chars, other.chars, checked)
        l == AddField(self.lines, other.lines, checked)
        w == AddField(self.words, other.words, checked)
    IN  [panicked |-> b.panicked \/ c.panicked \/ l.panicked \/ w.panicked,
         val |-> [bytes |-> b.val, chars |-> c.val, lines |-> l.val,
                  words |-> w.val, max_line_length |-> self.max_line_length]]

\* impl Add for Statistics: [panicked, val]
add(self, other, checked) ==
    LET b == AddField(self.bytes, other.bytes, checked)
        c == AddField(self.chars, other.chars, checked)
        l == AddField(self.lines, other.lines, checked)
        w == AddField(self.words, other.words, checked)
    IN  [panicked |-> b.panicked \/ c.panicked \/ l.panicked \/ w.panicked,
         val |-> [bytes |-> b.val, chars |-> c.val, lines |-> l.val,
                  words |-> w.val,
                  max_line_length |->
                      Max(self.max_line_length, other.max_line_length)]]

----------------------------------------------------------------------------
(* The inputs: what standard input and the named files hold *)

\* "aaaaa bbbbb\nccc\n": 16 bytes, 2 lines, 3 words, longest line 12
StdinContent ==
    << Run("a", 5), Run(" ", 1), Run("b", 5), Run("\n", 1),
       Run("c", 3), Run("\n", 1) >>

\* a two-byte character, and a last line without terminator
Utf8Content ==
    << Run("h", 1), Run(EAcute, 1), Run("l", 2), Run("o", 1), Run("\n", 1),
       Run("a", 1), Run("b", 1) >>

\* the length of the two long lines of BigContent, terminator included
HugeLine == (W16 * 16384 - 1) * 2 + 1

\* lines of 3 and of 65536 bytes, then two of 2147483647 bytes: more than
\* 2^32 bytes in all
BigContent ==
    << Run("a", 2), Run("\n", 1), Run("a", W16 - 1), Run("\n", 1),
       Run("a", HugeLine - 1), Run("\n", 1),
       Run("a", HugeLine - 1), Run("\n", 1) >>

\* the read fails in the middle of the second line
BadContent == << Run("a", 2), Run("\n", 1), Run("b", 1), Run(EIO, 1) >>

\* what standard input may hold: text, or text that stops being readable
StdinSet == { StdinContent, BadContent }

Names == { "-", "utf8.txt", "big.txt", "missing" }

\* File::open succeeds
Exists(name) == name # "missing"

Content(name) ==
    CASE name = "utf8.txt" -> Utf8Content
      [] name = "big.txt" -> BigContent
      [] OTHER -> << >>

SeqsUpTo(S, n) == UNION { [1..k -> S] : k \in 0..n }

OptionsSet ==
    [files : SeqsUpTo(Names, MaxFiles), bytes : BOOLEAN, chars : BOOLEAN,
     lines : BOOLEAN, words : BOOLEAN, max_line_length : BOOLEAN,
     filename : BOOLEAN, no_header : BOOLEAN]

AllColumns ==
    [files |-> << >>, bytes |-> TRUE, chars |-> TRUE, lines |-> TRUE,
     words |-> TRUE, max_line_length |-> TRUE, filename |-> TRUE,
     no_header |-> FALSE]

----------------------------------------------------------------------------
(* main and read_file: main.rs 145-159, 195-239 *)

MainIdle ==
    /\ options = AllColumns
    /\ pc = "idle"
    /\ idx = 0
    /\ stdin_rest = << >>
    /\ reader = [stdin |-> FALSE, rest |-> << >>]
    /\ buffer = << >>
    /\ statistics = Statistics_new
    /\ total = Statistics_new
    /\ output = << >>
    /\ seen = << >>
    /\ snaps = << >>

FsIdle ==
    /\ fs = FixedString_new(0)
    /\ fs_log = << >>
    /\ fs_last = << >>

FmtIdle ==
    /\ fmt_in = << >>
    /\ fmt_out = << >>

AddIdle ==
    /\ add_in = << >>
    /\ add_out = << >>

Init ==
    /\ options \in OptionsSet
    /\ overflow_checks \in BOOLEAN
    /\ pc = "start"
    /\ idx = 0
    /\ stdin_rest \in StdinSet
    /\ reader = [stdin |-> FALSE, rest |-> << >>]
    /\ buffer = << >>
    /\ statistics = Statistics_new
    /\ total = Statistics_new
    /\ output = << >>
    /\ seen = << >>
    /\ snaps = << >>
    /\ FsIdle /\ FmtIdle /\ AddIdle

\* one line of standard output, and the call that wrote it
Written(call, text) == [by |-> call, text |-> text]

\* main 198-214: the empty file list reads standard input through a
\* BufReader; otherwise the header comes first
Start ==
    /\ pc = "start"
    /\ IF options.files = << >>
       THEN /\ reader' = [stdin |-> TRUE, rest |-> stdin_rest]
            /\ statistics' = Statistics_new
            /\ seen' = << >>
            /\ pc' = "read"
            /\ UNCHANGED << idx, output >>
       ELSE /\ idx' = 1
            /\ IF options.no_header
               THEN pc' = "open" /\ UNCHANGED output
               ELSE IF print_header(options).s.panicked
               THEN pc' = "panic" /\ UNCHANGED output
               ELSE /\ pc' = "open"
                    /\ output' = Append(output,
                           Written("print_header", print_header(options).out))
            /\ UNCHANGED << reader, statistics, seen >>
    /\ UNCHANGED << options, overflow_checks, stdin_rest, buffer, total, snaps >>
    /\ UNCHANGED << fsVars, fmtVars, addVars >>

\* main 216-226, read_file 146: the next source is opened and read_file
\* starts on it with a new Statistics and the driver's buffer
OpenSource ==
    /\ pc = "open"
    /\ LET filename == options.files[idx]
       IN  /\ filename = "-" \/ Exists(filename)
           /\ reader' = IF filename = "-"
                        THEN [stdin |-> TRUE, rest |-> stdin_rest]
                        ELSE [stdin |-> FALSE, rest |-> Content(filename)]
    /\ statistics' = Statistics_new
    /\ seen' = << >>
    /\ pc' = "read"
    /\ UNCHANGED << options, overflow_checks, idx, stdin_rest, buffer, total,
                    output, snaps >>
    /\ UNCHANGED << fsVars, fmtVars, addVars >>

\* main 222: File::open(&filename)? fails and main returns the error
OpenFails ==
    /\ pc = "open"
    /\ options.files[idx] # "-"
    /\ ~Exists(options.files[idx])
    /\ pc' = "error"
    /\ UNCHANGED << options, overflow_checks, idx, stdin_rest, reader, buffer,
                    statistics, total, output, seen, snaps >>
    /\ UNCHANGED << fsVars, fmtVars, addVars >>

\* what the reader's owner sees of a read that left `rest` unread
Consume(rest) ==
    /\ reader' = [reader EXCEPT !.rest = rest]
    /\ stdin_rest' = IF reader.stdin THEN rest ELSE stdin_rest

\* read_file 150: buffer.len() as u32
LineBytes(b) == AsU32(ByteLen(b))

\* read_file 151: buffer.chars().count() as u32
LineChars(b) == AsU32(CharCount(b))

\* read_file 152: buffer.split_whitespace().count() as u32
LineWords(b) == AsU32(WordCount(b))

\* the longest line measured in characters
LineLengthInChars(b) == AsU16(CharCount(b))

\* read_file 153: buffer.len() as u16
LineLength(b) == AsU16(ByteLen(b))

\* a loop that keeps the length of the last line, not of the longest
CountLastLength(st, b) ==
    LET l == U32Add(st.lines, U32One)
        y == U32Add(st.bytes, LineBytes(b))
        c == U32Add(st.chars, LineChars(b))
        w == U32Add(st.words, LineWords(b))
    IN  [overflow |-> l.overflow \/ y.overflow \/ c.overflow \/ w.overflow,
         val |-> [bytes |-> y.val, chars |-> c.val, lines |-> l.val,
                  words |-> w.val, max_line_length |-> LineLength(b)]]

\* read_file 149-153 on the buffer b: [val, overflow]
Count(st, b) ==
    LET l == U32Add(st.lines, U32One)
        y == U32Add(st.bytes, LineBytes(b))
        c == U32Add(st.chars, LineChars(b))
        w == U32Add(st.words, LineWords(b))
    IN  [overflow |-> l.overflow \/ y.overflow \/ c.overflow \/ w.overflow,
         val |-> [bytes |-> y.val, chars |-> c.val, lines |-> l.val,
                  words |-> w.val,
                  max_line_length |-> Max(st.max_line_length, LineLength(b))]]

\* a loop that forgets to clear the buffer
NotCleared(b) == b

\* String::clear at read_file 155
Cleared(b) == << >>

\* read_file 148-156: one turn of the loop.  read_line appends the line to
\* the buffer; the counters are taken from the buffer; the buffer is cleared
ReadLineOk ==
    /\ pc = "read"
    /\ LET r == read_line(reader.rest)
           b == buffer \o r.line
           n == Count(statistics, b)
       IN  /\ r.status = "ok"
           /\ r.line # << >>
           /\ Consume(r.rest)
           /\ seen' = Append(seen, r.line)
           /\ IF overflow_checks /\ n.overflow
              THEN /\ pc' = "panic"
                   /\ buffer' = b
                   /\ UNCHANGED statistics
              ELSE /\ pc' = "read"
                   /\ statistics' = n.val
                   /\ buffer' = Cleared(b)
    /\ UNCHANGED << options, overflow_checks, idx, total, output, snaps >>
    /\ UNCHANGED << fsVars, fmtVars, addVars >>

\* read_file 148, 158: read_line returns 0 and read_file returns Ok
ReadLineEof ==
    /\ pc = "read"
    /\ LET r == read_line(reader.rest)
       IN  /\ r.status = "ok"
           /\ r.line = << >>
           /\ Consume(r.rest)
    /\ pc' = "print"
    /\ UNCHANGED << options, overflow_checks, idx, buffer, statistics, total,
                    output, seen, snaps >>
    /\ UNCHANGED << fsVars, fmtVars, addVars >>

\* a loop that takes a failed read for the end of the stream
ReadLineErrAsEof ==
    /\ pc = "read"
    /\ LET r == read_line(reader.rest)
       IN  /\ r.status = "err"
           /\ Consume(r.rest)
           /\ buffer' = buffer \o r.line
    /\ pc' = "print"
    /\ UNCHANGED << options, overflow_checks, idx, statistics, total, output,
                    seen, snaps >>
    /\ UNCHANGED << fsVars, fmtVars, addVars >>

\* read_file 148: read_line(buffer)? fails; read_file returns the error and
\* main returns it (204, 226).  The buffer may hold what was read before.
ReadLineErr ==
    /\ pc = "read"
    /\ LET r == read_line(reader.rest)
       IN  /\ r.status = "err"
           /\ Consume(r.rest)
           /\ buffer' = buffer \o r.line
    /\ pc' = "error"
    /\ UNCHANGED << options, overflow_checks, idx, statistics, total, output,
                    seen, snaps >>
    /\ UNCHANGED << fsVars, fmtVars, addVars >>

\* main 206-210: the header, then the line of standard input
ReportStdin ==
    /\ pc = "print"
    /\ options.files = << >>
    /\ LET h == print_header(options)
           p == print(statistics, options, "-")
           o == IF options.no_header THEN output
                ELSE Append(output, Written("print_header", h.out))
       IN  IF ~options.no_header /\ h.s.panicked
           THEN pc' = "panic" /\ UNCHANGED output
           ELSE IF p.s.panicked
           THEN pc' = "panic" /\ output' = o
           ELSE pc' = "finish" /\ output' = Append(o, Written("print", p.out))
    /\ snaps' = Append(snaps, statistics)
    /\ UNCHANGED << options, overflow_checks, idx, stdin_rest, reader, buffer,
                    statistics, total, seen >>
    /\ UNCHANGED << fsVars, fmtVars, addVars >>

\* main 228-231: the line of the source, then total = total + statistics,
\* then the next source
ReportSource ==
    /\ pc = "print"
    /\ options.files # << >>
    /\ LET p == print(statistics, options, options.files[idx])
           t == add(total, statistics, overflow_checks)
       IN  IF p.s.panicked
           THEN pc' = "panic" /\ UNCHANGED << output, total, idx >>
           ELSE /\ output' = Append(output, Written("print", p.out))
                /\ IF t.panicked
                   THEN pc' = "panic" /\ UNCHANGED << total, idx >>
                   ELSE /\ total' = t.val
                        /\ idx' = idx + 1
                        /\ pc' = IF idx = Len(options.files)
                                 THEN "finish" ELSE "open"
    /\ snaps' = Append(snaps, statistics)
    /\ UNCHANGED << options, overflow_checks, stdin_rest, reader, buffer,
                    statistics, seen >>
    /\ UNCHANGED << fsVars, fmtVars, addVars >>

\* a driver that prints the total line whenever a file was named
FinishAlways ==
    /\ pc = "finish"
    /\ LET p == print(total, options, "total")
       IN  IF Len(options.files) >= 1
           THEN IF p.s.panicked
                THEN pc' = "panic" /\ UNCHANGED output
                ELSE pc' = "done" /\ output' = Append(output, Written("print", p.out))
           ELSE pc' = "done" /\ UNCHANGED output
    /\ UNCHANGED << options, overflow_checks, idx, stdin_rest, reader, buffer,
                    statistics, total, seen, snaps >>
    /\ UNCHANGED << fsVars, fmtVars, addVars >>

\* main 234-238: the total line when more than one file was named
Finish ==
    /\ pc = "finish"
    /\ LET p == print(total, options, "total")
       IN  IF Len(options.files) > 1
           THEN IF p.s.panicked
                THEN pc' = "panic" /\ UNCHANGED output
                ELSE pc' = "done" /\ output' = Append(output, Written("print", p.out))
           ELSE pc' = "done" /\ UNCHANGED output
    /\ UNCHANGED << options, overflow_checks, idx, stdin_rest, reader, buffer,
                    statistics, total, seen, snaps >>
    /\ UNCHANGED << fsVars, fmtVars, addVars >>

Next ==
    \/ Start
    \/ OpenSource
    \/ OpenFails
    \/ ReadLineOk
    \/ ReadLineEof
    \/ ReadLineErr
    \/ ReportStdin
    \/ ReportSource
    \/ Finish

Spec == Init /\ [][Next]_vars

----------------------------------------------------------------------------
(* The builder on its own: any capacity, any sequence of appends *)

\* the literals appended with write_lit and push_str_unchecked
Literals == { << >>, << "x" >>, << "y", "z" >>, TitleBytes }

\* the arguments appended with write_fmt: 9 and 11 characters
FmtArguments ==
    { Arguments(ColumnWidth, v, << " " >>) : v \in { Wide(7), U32Max } }

InitFS ==
    /\ MainIdle
    /\ overflow_checks = FALSE
    /\ fs \in { FixedString_new(N) : N \in 0..MaxCap }
    /\ fs_log = << >>
    /\ fs_last = << >>
    /\ FmtIdle /\ AddIdle

\* what one append by `method` leaves behind: g is the builder after it
Appended(method, g, frag) ==
    /\ ~fs.panicked
    /\ Len(fs_log) < MaxAppends
    /\ fs' = g
    /\ fs_log' = IF g.panicked THEN fs_log ELSE Append(fs_log, frag)
    /\ fs_last' = [method |-> method, before |-> fs, frag |-> frag]
    /\ UNCHANGED << mainVars, overflow_checks, fmtVars, addVars >>

FsWriteLit == \E lit \in Literals : Appended("write_lit", write_lit(fs, lit), lit)

FsWriteFmt == \E a \in FmtArguments : Appended("write_fmt", write_fmt(fs, a), format(a))

FsPushStr == \E s \in Literals : Appended("push_str_unchecked", push_str_unchecked(fs, s), s)

NextFS ==
    \/ FsWriteLit
    \/ FsWriteFmt
    \/ FsPushStr

SpecFS == InitFS /\ [][NextFS]_vars

----------------------------------------------------------------------------
(* The formatter on its own: every choice of columns, counters at the ends
   of their ranges *)

\* 99999999, the largest number of eight digits
Eight9 == [hi |-> 1525, lo |-> 57599]

U32Samples == { U32Zero, Eight9, U32Max }
U16Samples == { 0, W16 - 1 }

StatisticsSamples ==
    [bytes : U32Samples, chars : U32Samples, lines : U32Samples,
     words : U32Samples, max_line_length : U16Samples]

InitFmt ==
    /\ MainIdle
    /\ overflow_checks = FALSE
    /\ FsIdle
    /\ fmt_in \in [opts : { o \in OptionsSet : o.files = << >> /\ ~o.no_header },
                   stats : StatisticsSamples]
    /\ fmt_out = << >>
    /\ AddIdle

FmtPrint ==
    /\ fmt_out = << >>
    /\ fmt_out' = << "print", print(fmt_in.stats, fmt_in.opts, "-") >>
    /\ UNCHANGED << mainVars, overflow_checks, fsVars, fmt_in, addVars >>

FmtHeader ==
    /\ fmt_out = << >>
    /\ fmt_out' = << "print_header", print_header(fmt_in.opts) >>
    /\ UNCHANGED << mainVars, overflow_checks, fsVars, fmt_in, addVars >>

NextFmt ==
    \/ FmtPrint
    \/ FmtHeader

SpecFmt == InitFmt /\ [][NextFmt]_vars

----------------------------------------------------------------------------
(* The combination on its own *)

Stat(b, c, l, w, m) ==
    [bytes |-> b, chars |-> c, lines |-> l, words |-> w, max_line_length |-> m]

\* 3000000000 and 2000000000
ThreeE9 == [hi |-> 45776, lo |-> 24064]
TwoE9 == [hi |-> 30517, lo |-> 37888]

AddOperands ==
    { Statistics_new,
      Stat(Wide(16), Wide(15), Wide(2), Wide(3), 12),
      Stat(ThreeE9, TwoE9, Wide(70000), Wide(65535), 7),
      Stat(TwoE9, TwoE9, U32One, U32Zero, W16 - 1),
      Stat(U32Max, U32Zero, Wide(5), Wide(9), 300) }

InitAdd ==
    /\ MainIdle
    /\ overflow_checks \in BOOLEAN
    /\ FsIdle /\ FmtIdle
    /\ add_in \in AddOperands \X AddOperands \X AddOperands
    /\ add_out = << >>

\* what an expression leaves: a value, or the panic of its first failing part
Outcome(r) == IF r.panicked THEN [panicked |-> TRUE, val |-> Statistics_new] ELSE r

\* x + y where x is the outcome of an earlier expression
AddStep(rx, ry) ==
    IF rx.panicked THEN Outcome(rx)
    ELSE IF ry.panicked THEN Outcome(ry)
    ELSE Outcome(add(rx.val, ry.val, overflow_checks))

Value(s) == [panicked |-> FALSE, val |-> s]

Combine ==
    /\ add_out = << >>
    /\ LET a == Value(add_in[1])
           b == Value(add_in[2])
           c == Value(add_in[3])
           z == Value(Statistics_new)
       IN  add_out' = [ab_c |-> AddStep(AddStep(a, b), c),
                       a_bc |-> AddStep(a, AddStep(b, c)),
                       ab |-> AddStep(a, b),
                       ba |-> AddStep(b, a),
                       az |-> AddStep(a, z),
                       za |-> AddStep(z, a)]
    /\ UNCHANGED << mainVars, overflow_checks, fsVars, fmtVars, add_in >>

NextAdd == Combine

SpecAdd == InitAdd /\ [][NextAdd]_vars

----------------------------------------------------------------------------
(* What the properties are stated with *)

RECURSIVE WSum(_, _)
\* the sum of F over the lines ls, as a number of any size
WSum(F(_), ls) ==
    IF ls = << >> THEN U32Zero ELSE WAdd(Wide(F(Head(ls))), WSum(F, Tail(ls)))

RECURSIVE Longest(_, _)
\* the largest F over the lines ls, 0 when there is none
Longest(F(_), ls) ==
    IF ls = << >> THEN 0 ELSE Max(F(Head(ls)), Longest(F, Tail(ls)))

ByteLen16(l) == ByteLen(l) % W16

\* every field of s is at most the same field of t
StatLe(s, t) ==
    /\ WLe(s.bytes, t.bytes)
    /\ WLe(s.chars, t.chars)
    /\ WLe(s.lines, t.lines)
    /\ WLe(s.words, t.words)
    /\ s.max_line_length <= t.max_line_length

\* the four totals of the lines ls fit in 32 bits
TotalsFit(ls) ==
    /\ Fits32(WSum(ByteLen, ls))
    /\ Fits32(WSum(CharCount, ls))
    /\ Fits32(WSum(WordCount, ls))

\* the sum of two snapshots: u32 sums and the larger longest line
Sum2(s, t) ==
    [bytes |-> U32Add(s.bytes, t.bytes).val,
     chars |-> U32Add(s.chars, t.chars).val,
     lines |-> U32Add(s.lines, t.lines).val,
     words |-> U32Add(s.words, t.words).val,
     max_line_length |-> IF s.max_line_length >= t.max_line_length
                         THEN s.max_line_length ELSE t.max_line_length]

RECURSIVE SumAll(_)
\* the combination of the snapshots ss
SumAll(ss) ==
    IF ss = << >> THEN Statistics_new
    ELSE Sum2(SumAll(SubSeq(ss, 1, Len(ss) - 1)), ss[Len(ss)])

\* the report lines written so far, and their display names
IsReportLine(w) == w.by = "print"
ReportLines == SelectSeq(output, IsReportLine)
NameOf(w) == w.text[Len(w.text) - 1]
ReportNames == [i \in 1..Len(ReportLines) |-> NameOf(ReportLines[i])]
HasTotalLine == \E i \in 1..Len(ReportLines) : ReportNames[i] = "total"

\* the sources of the run, in order
Sources == IF options.files = << >> THEN << "-" >> ELSE options.files

\* the columns enabled, in the fixed order
Columns ==
    SelectSeq(<< "bytes", "chars", "lines", "words", "max_line_length" >>,
              LAMBDA c : options[c])

----------------------------------------------------------------------------
(* C1: when read_file returns a snapshot of a stream whose totals fit in 32
   bits, lines is the number of non-empty reads, and bytes, chars and words
   are the sums of the byte lengths, character counts and word counts of
   the lines read; this holds for the first source and for every later one
   read through the same buffer, and an empty stream gives all zeros. *)
C1_Counts ==
    (pc = "print" /\ TotalsFit(seen)) =>
        /\ \A i \in 1..Len(seen) : seen[i] # << >>
        /\ statistics.lines = Wide(Len(seen))
        /\ statistics.bytes = WSum(ByteLen, seen)
        /\ statistics.chars = WSum(CharCount, seen)
        /\ statistics.words = WSum(WordCount, seen)
        /\ (seen = << >> => statistics = Statistics_new)

\* the second source of a run, read after a first one that had lines
C1_Witness ==
    /\ pc = "print"
    /\ idx = 2
    /\ options.files = << "-", "utf8.txt" >>
    /\ snaps[1].lines = Wide(2)
    /\ statistics = Stat(Wide(9), Wide(8), Wide(2), Wide(2), 7)

(* C2, as stated: the max_line_length read_file returns is the largest raw
   byte length among the lines read, whatever their length. *)
C2_Original ==
    pc = "print" => statistics.max_line_length = Longest(ByteLen, seen)

(* C2, amended: the max_line_length read_file returns is the largest value
   of (raw byte length mod 65536) among the lines read, 0 when none was
   read; it is the largest raw byte length when every line is shorter than
   65536 bytes. *)
C2_Amended ==
    pc = "print" =>
        /\ statistics.max_line_length = Longest(ByteLen16, seen)
        /\ (\A i \in 1..Len(seen) : ByteLen(seen[i]) < W16)
               => statistics.max_line_length = Longest(ByteLen, seen)

\* a stream of a 7-byte line of 6 characters and a shorter one
C2_Witness ==
    /\ pc = "print"
    /\ Len(seen) = 2
    /\ ByteLen(seen[1]) = 7
    /\ CharCount(seen[1]) = 6
    /\ statistics.max_line_length = 7

(* C3: Statistics + Statistics is associative and commutative, sums bytes,
   chars, lines and words and takes the larger max_line_length, and the
   all-zero snapshot is neutral on both sides. *)
C3_AddLaws ==
    add_out # << >> =>
        /\ add_out.ab_c = add_out.a_bc
        /\ add_out.ab = add_out.ba
        /\ add_out.az = Value(add_in[1])
        /\ add_out.za = Value(add_in[1])
        /\ ~add_out.ab.panicked => add_out.ab.val = Sum2(add_in[1], add_in[2])

\* three different non-zero snapshots, combined without a panic
C3_Witness ==
    /\ add_out # << >>
    /\ ~add_out.ab_c.panicked
    /\ Cardinality({ add_in[1], add_in[2], add_in[3], Statistics_new }) = 4
    /\ add_in[1].max_line_length < add_in[2].max_line_length

(* C4: a run that completes has a total line exactly when more than one
   file was named; the report lines are those of the sources in the order
   given, then the total line, which is last and carries the combination of
   all the snapshots.  No total line is written before the end, or with
   fewer than two files. *)
C4_Total ==
    /\ HasTotalLine => (pc = "done" /\ Len(options.files) > 1)
    /\ pc = "done" =>
        /\ HasTotalLine <=> Len(options.files) > 1
        /\ Len(snaps) = Len(Sources)
        /\ ReportNames = IF Len(options.files) > 1
                         THEN Sources \o << "total" >> ELSE Sources
        /\ \A i \in 1..Len(Sources) :
               ReportLines[i].text = print(snaps[i], options, Sources[i]).out
        /\ Len(options.files) > 1 =>
               output[Len(output)] =
                   Written("print", print(SumAll(snaps), options, "total").out)

\* a completed run over two different files
C4_Witness ==
    /\ pc = "done"
    /\ options.files = << "utf8.txt", "-" >>
    /\ NameOf(output[Len(output)]) = "total"
    /\ total.bytes = Wide(25)

(* C5: when opening or reading source k fails the run ends with the error:
   no snapshot is returned for k, the report lines are exactly those of the
   sources before k, there is no total line, the running total is the
   combination of the snapshots of the sources before k, and nothing runs
   afterwards.  read_file returns a snapshot only at the end of a stream. *)
C5_Errors ==
    /\ pc = "print" => reader.rest = << >>
    /\ pc = "error" =>
        LET k == IF options.files = << >> THEN 1 ELSE idx
        IN  /\ Len(snaps) = k - 1
            /\ ReportNames = SubSeq(Sources, 1, k - 1)
            /\ \A i \in 1..(k - 1) :
                   ReportLines[i].text = print(snaps[i], options, Sources[i]).out
            /\ ~HasTotalLine
            /\ total = SumAll(snaps)
            /\ options.files = << >> => output = << >>
            /\ ~ENABLED Next

\* the second source fails after one of its lines was counted
C5_Witness ==
    /\ pc = "error"
    /\ idx = 2
    /\ Len(snaps) = 1
    /\ statistics.lines = U32One
    /\ total.lines = Wide(2)

\* the characters of text s that end a word: not a space, and before a
\* space or the end
TokenEnds(s) ==
    { i \in 1..Len(s) : s[i] # " " /\ (i = Len(s) \/ s[i + 1] = " ") }

TokenStarts(s) ==
    { i \in 1..Len(s) : s[i] # " " /\ (i = 1 \/ s[i - 1] = " ") }

\* the k-th smallest number of the set S
Nth(S, k) == CHOOSE x \in S : Cardinality({ y \in S : y <= x }) = k

\* the words of text s, in order
Tokens(s) ==
    [k \in 1..Cardinality(TokenEnds(s)) |->
        SubSeq(s, Nth(TokenStarts(s), k), Nth(TokenEnds(s), k))]

\* the title of a column, and the number a snapshot shows in it
TitleOf(c) ==
    CASE c = "bytes" -> << "b", "y", "t", "e", "s" >>
      [] c = "chars" -> << "c", "h", "a", "r", "s" >>
      [] c = "lines" -> << "l", "i", "n", "e", "s" >>
      [] c = "words" -> << "w", "o", "r", "d", "s" >>
      [] c = "max_line_length" -> << "m", "a", "x" >>

Shown(s, c) == IF c = "max_line_length" THEN Wide(s[c]) ELSE s[c]

DisplayNames == Names \cup { "total" }

\* a written line without its newline
Chomp(w) == SubSeq(w.text, 1, Len(w.text) - 1)

\* the numeric part of a report line: all but " ", the name and the newline
Numbers(w) == SubSeq(w.text, 1, Len(w.text) - 3)

\* the snapshot the i-th report line shows
ShownBy(i) == IF i <= Len(snaps) THEN snaps[i] ELSE total

(* C6, as stated: every report line is the enabled numeric columns in the
   order bytes, chars, lines, words, max_line_length followed by the
   display name, except that the line carries no name when the filename
   option is disabled and the only input is the unnamed standard input. *)
C6_Names ==
    \A i \in 1..Len(ReportLines) :
        LET w == ReportLines[i]
            named == ~(~options.filename /\ options.files = << >>)
            nums == IF named THEN Numbers(w) ELSE Chomp(w)
        IN  /\ Tokens(nums) =
                   [k \in 1..Len(Columns) |-> Decimal(Shown(ShownBy(i), Columns[k]))]
            /\ named => NameOf(w) \in DisplayNames
            /\ ~named => \A j \in 1..Len(w.text) : w.text[j] \notin DisplayNames

(* C7: a FixedString of capacity N keeps 0 <= len <= N; an append that fits
   leaves the old content followed by the whole fragment and len increased
   by its length; an append that does not fit panics and changes neither
   the content nor len; as_bytes and as_str_unchecked are the concatenation
   of the fragments appended successfully, in order. *)
C7_Builder ==
    LET Concat(ss) ==
            LET RECURSIVE cat(_)
                cat(k) == IF k = 0 THEN << >> ELSE cat(k - 1) \o ss[k]
            IN  cat(Len(ss))
    IN  /\ 0 <= fs.len /\ fs.len <= Capacity(fs)
        /\ as_bytes(fs) = Concat(fs_log)
        /\ as_str_unchecked(fs) = Concat(fs_log)
        /\ fs_last # << >> =>
              LET b == fs_last.before
                  s == fs_last.frag
              IN  /\ Capacity(fs) = Capacity(b)
                  /\ IF b.len + Len(s) <= Capacity(b)
                     THEN /\ ~fs.panicked
                          /\ fs.len = b.len + Len(s)
                          /\ as_bytes(fs) = as_bytes(b) \o s
                     ELSE /\ fs.panicked
                          /\ fs.len = b.len
                          /\ fs.data = b.data

\* an append that did not fit, after two that did
C7_Witness ==
    /\ fs.panicked
    /\ Len(fs_log) = 2
    /\ fs.len > 0
    /\ fs.len + Len(fs_last.frag) > Capacity(fs)

(* C8, as stated: a header line is written only when no_header is false; it
   holds the titles of exactly the enabled columns in the order of the
   numeric columns (then the filename title when enabled); and each title
   ends at the offset where the number of its column ends in every report
   line whose numbers have at most 8 digits. *)
C8_Header ==
    \A i \in 1..Len(output) :
        output[i].by = "print_header" =>
            LET h == Chomp(output[i])
            IN  /\ ~options.no_header
                /\ Tokens(h) =
                       [k \in 1..Len(Columns) |-> TitleOf(Columns[k])]
                       \o (IF options.filename
                           THEN << << "f", "i", "l", "e", "n", "a", "m", "e" >> >>
                           ELSE << >>)
                /\ \A j \in 1..Len(ReportLines) :
                       LET n == Numbers(ReportLines[j])
                       IN  (\A k \in 1..Len(Tokens(n)) : Len(Tokens(n)[k]) <= ColumnWidth)
                           => \A k \in 1..Len(Columns) :
                                  Nth(TokenEnds(h), k) = Nth(TokenEnds(n), k)

(* C9, as stated: each line read_file processes leaves every field of the
   running Statistics at least as large as before, for streams of any
   size. *)
C9_Original ==
    [][(pc = "read" /\ pc' = "read") => StatLe(statistics, statistics')]_vars

(* C9, amended: each line read_file processes leaves max_line_length at
   least as large as before, for every stream; and it leaves bytes, chars,
   lines and words at least as large as before as long as the totals of the
   lines read so far fit in 32 bits. *)
C9_Amended ==
    [][(pc = "read" /\ pc' = "read") =>
          /\ statistics.max_line_length <= statistics'.max_line_length
          /\ TotalsFit(seen') => StatLe(statistics, statistics')]_vars

\* the second line of a stream has been processed
C9_Witness ==
    /\ pc = "read"
    /\ Len(seen) = 2
    /\ statistics.lines = Wide(2)
    /\ ByteLen(seen[2]) < ByteLen(seen[1])

(* C10: no append of Statistics::print or print_header fails: for every
   choice of columns and counters up to the ends of the u32 and u16 ranges
   print appends at most 64 bytes, and for every choice of column and
   filename flags print_header appends at most 54. *)
C10_Capacity ==
    fmt_out # << >> =>
        /\ ~fmt_out[2].s.panicked
        /\ fmt_out[2].out # << >>
        /\ fmt_out[1] = "print" => fmt_out[2].s.len <= 64
        /\ fmt_out[1] = "print_header" => fmt_out[2].s.len <= 54

\* the header of all columns and the filename fills its builder exactly
C10_Witness ==
    /\ fmt_out # << >>
    /\ fmt_out[1] = "print_header"
    /\ fmt_out[2].s.len = 54

====
